---- MODULE Spec2Model ----
(***************************************************************************)
(* Order pricing and order status transitions of src/index.js.            *)
(*                                                                         *)
(* The three stores (products, orders, bills) are the tables behind the   *)
(* Sequelize models.  Every request handler is an async function: the     *)
(* code between two awaits runs without interruption, and at each await   *)
(* other requests may run.  One action is one such stretch, together with *)
(* the store operation whose completion starts it.  Bill.create at line   *)
(* 344 is called without await: the write is issued and the handler goes  *)
(* on, so the write is a message in flight (billWrites) that the store    *)
(* executes at some later moment.                                          *)
(*                                                                         *)
(* Amounts: total_amount is held in hundredths (the denominator of        *)
(* DISCOUNT_RATIO), so that the product by 0.95 is exact.                 *)
(***************************************************************************)
EXTENDS Integers, Sequences, FiniteSets, TLC

VARIABLES
    products,      \* the rows of the product table
    orders,        \* the rows of the order table
    bills,         \* the rows of the bill table
    billWrites,    \* the Bill.create calls issued and not yet executed, each
                   \* with the slot of the request that issued it (0 once
                   \* that request is over)
    req,           \* per slot, the request being handled
    acceptedPaid   \* history: the number of requests for paid answered 200

vars == <<products, orders, bills, billWrites, req, acceptedPaid>>

----------------------------------------------------------------------------
(* Bounds of the model *)

MaxProducts == 2
MaxOrders == 1
MaxBills == 2
MaxLen == 2

\* price and weight of the products that are posted
ProductBodies == {[price |-> 500, weight |-> 4], [price |-> 975, weight |-> 5]}

\* Two requests can be in flight at a time
Slots == {1, 2}

----------------------------------------------------------------------------
(* Constants of the program *)

SHIPMENT_PRICE_STEP == 25
SHIPMENT_WEIGHT_STEP == 10
DISCOUNT_THRESHOLD == 1000
\* 0.95, as numerator and denominator
DISCOUNT_RATIO == <<95, 100>>

StatusListWithShipped == {"pending", "paid", "cancelled", "shipped"}
\* the literal array of line 339
StatusList == {"pending", "paid", "cancelled"}

\* defaultValue of Order.status
DefaultStatus == "pending"

----------------------------------------------------------------------------
(* Request bodies.  An entry of product_list is a JSON value: an integer  *)
(* number n or a string s (a sequence of one-character strings).           *)

Num(n) == [t |-> "number", n |-> n, s |-> <<>>]
Str(s) == [t |-> "string", n |-> 0, s |-> s]

Entries == {Num(1), Num(2), Str(<<"2">>), Str(<<"a">>)}

RECURSIVE SeqsUpTo(_, _)
SeqsUpTo(S, n) ==
    IF n = 0 THEN {<<>>}
    ELSE LET shorter == SeqsUpTo(S, n - 1)
         IN  shorter \cup {Append(q, e) : q \in {x \in shorter : Len(x) = n - 1}, e \in S}

Undefined == [t |-> "undefined", v |-> <<>>]
Array(v) == [t |-> "array", v |-> v]

ProductLists == {Undefined} \cup {Array(v) : v \in SeqsUpTo(Entries, MaxLen)}

RequestedStatuses == {"pending", "paid", "cancelled", "shipped"}

----------------------------------------------------------------------------
(* Joi validation of the order body (orderSchema, lines 55-59)             *)

DigitValue ==
    [c \in {"0", "1", "2", "3", "4", "5", "6", "7", "8", "9"} |->
        CASE c = "0" -> 0 [] c = "1" -> 1 [] c = "2" -> 2 [] c = "3" -> 3
          [] c = "4" -> 4 [] c = "5" -> 5 [] c = "6" -> 6 [] c = "7" -> 7
          [] c = "8" -> 8 [] c = "9" -> 9]

IsDigit(c) == c \in DOMAIN DigitValue

\* Joi.number(): a JSON number passes; a string passes when it converts to
\* a finite number, which for the strings here means digits only.
JoiNumber(e) ==
    \/ e.t = "number"
    \/ e.t = "string" /\ Len(e.s) > 0 /\ \A i \in 1..Len(e.s) : IsDigit(e.s[i])

\* The error details of Joi.validate(req.body, orderSchema, {abortEarly: false}),
\* mapped to {message, context} as lines 200-202 do; <<>> when there is no error.
JoiValidate(pl) ==
    IF pl.t = "undefined"
    THEN <<[message |-> "is required", key |-> "product_list"]>>
    ELSE LET bad == SelectSeq([i \in 1..Len(pl.v) |-> i],
                              LAMBDA i : ~JoiNumber(pl.v[i]))
         IN  [k \in 1..Len(bad) |->
                 [message |-> "must be a number", key |-> ToString(bad[k] - 1)]]

----------------------------------------------------------------------------
(* parseInt(id, 0) of line 208.  The result is a number or NaN.            *)

NaN == [nan |-> TRUE, n |-> 0]
Parsed(n) == [nan |-> FALSE, n |-> n]

RECURSIVE LeadingDigits(_, _, _)
\* value of the longest prefix of digits of s from position i on, acc so far
LeadingDigits(s, i, acc) ==
    IF i > Len(s) \/ ~IsDigit(s[i]) THEN acc
    ELSE LeadingDigits(s, i + 1, 10 * acc + DigitValue[s[i]])

parseIntNoStrings(e) == IF e.t = "number" THEN Parsed(e.n) ELSE NaN
\* An integer number gives itself (by way of its decimal string); a string
\* gives the value of its leading digits, and NaN when it has none.
parseInt(e) ==
    IF e.t = "number" THEN Parsed(e.n)
    ELSE IF Len(e.s) > 0 /\ IsDigit(e.s[1]) THEN Parsed(LeadingDigits(e.s, 1, 0))
    ELSE NaN

\* req.body.product_list.map(id => parseInt(id, 0))
ParsedIds(v) == [i \in 1..Len(v) |-> parseInt(v[i])]

----------------------------------------------------------------------------
(* Product.findAll({where: {id: {[Op.in]: ids}}}), lines 206-210: the rows *)
(* of the table whose id is one of ids, each row once, in table order.     *)

RECURSIVE JoinByIds(_, _)
JoinByIds(rows, ids) ==
    IF ids = <<>> THEN <<>>
    ELSE SelectSeq(rows, LAMBDA p : ~ids[1].nan /\ ids[1].n = p.id)
         \o JoinByIds(rows, Tail(ids))

FindAllWhereIdIn(rows, ids) ==
    SelectSeq(rows, LAMBDA p : \E i \in 1..Len(ids) : ~ids[i].nan /\ ids[i].n = p.id)

----------------------------------------------------------------------------
(* Pricing, lines 220-250                                                  *)

RECURSIVE Reduce(_, _)
\* list.reduce((prev, cur) => prev + cur, init)
Reduce(list, init) ==
    IF list = <<>> THEN init ELSE Reduce(Tail(list), init + Head(list))

orderTotalWeight(productListData) ==
    Reduce([i \in 1..Len(productListData) |-> productListData[i].weight], 0)

orderProductListPrice(productListData) ==
    Reduce([i \in 1..Len(productListData) |-> productListData[i].price], 0)

MathFloor(n, d) == n \div d
\* Math.round(n / d) for d > 0: the nearest integer, a half going up
MathRound(n, d) == (2 * n + d) \div (2 * d)

orderShipmentPrice(weight) ==
    SHIPMENT_PRICE_STEP * MathRound(weight, SHIPMENT_WEIGHT_STEP)

DiscountFromThreshold(amount) ==
    IF amount >= DISCOUNT_THRESHOLD THEN amount * DISCOUNT_RATIO[1]
    ELSE amount * DISCOUNT_RATIO[2]
\* lines 235-241, the result in hundredths
totalAmount(amount) ==
    IF amount > DISCOUNT_THRESHOLD THEN amount * DISCOUNT_RATIO[1]
    ELSE amount * DISCOUNT_RATIO[2]

\* lines 243-250.  product_list is not an attribute of the Order model
\* (lines 40-51), so Order.create does not store it.
orderData(productListData) ==
    LET weight == orderTotalWeight(productListData)
        shipment == orderShipmentPrice(weight)
    IN  [total_amount |-> totalAmount(orderProductListPrice(productListData) + shipment),
         shipment_amount |-> shipment,
         total_weight |-> weight]

----------------------------------------------------------------------------
(* State of a request: the handler's position and its local variables.    *)

NoData == [total_amount |-> 0, shipment_amount |-> 0, total_weight |-> 0]

Idle ==
    [kind |-> "none", pc |-> "idle",
     product_list |-> Undefined,    \* req.body.product_list
     id |-> 0, status |-> "",       \* req.params.id, req.body.status
     productList |-> <<>>,          \* const productList, line 206
     orderData |-> NoData,          \* const orderData, line 243
     order |-> <<>>,                \* const order, line 335: <<>> is null
     code |-> 0, data |-> <<>>, location |-> 0]   \* the response

\* The handler returns: its locals are gone, the response is what is left
Respond(q, code, data, location) ==
    [Idle EXCEPT !.kind = q.kind, !.pc = "done",
                 !.code = code, !.data = data, !.location = location]

InFlight(kind) == {r \in Slots : req[r].kind = kind /\ req[r].pc # "done"}

UnknownProducts == <<[message |-> "Unknown products", key |-> "product_list"]>>

Init ==
    /\ products = <<>>
    /\ orders = <<>>
    /\ bills = <<>>
    /\ billWrites = <<>>
    /\ req = [r \in Slots |-> Idle]
    /\ acceptedPaid = 0

----------------------------------------------------------------------------
(* POST /products, lines 101-116, for a body that has name, price and     *)
(* weight (a body that lacks one is answered 400 and changes nothing).    *)

PostProducts(body) ==
    /\ Len(products) < MaxProducts
    /\ products' = Append(products,
                          [id |-> Len(products) + 1,
                           price |-> body.price, weight |-> body.weight])
    /\ UNCHANGED <<orders, bills, billWrites, req, acceptedPaid>>

----------------------------------------------------------------------------
(* POST /orders, lines 194-255                                             *)

\* The request arrives; bodyParser.json() (line 69) has parsed its body
PostOrders(r, pl) ==
    /\ req[r].pc = "idle"
    /\ Len(orders) + Cardinality(InFlight("order")) < MaxOrders
    /\ req' = [req EXCEPT ![r] =
                  [Idle EXCEPT !.kind = "order", !.pc = "received", !.product_list = pl]]
    /\ UNCHANGED <<products, orders, bills, billWrites, acceptedPaid>>

\* lines 195-204: validation, up to the await of line 206
ValidateOrder(r) ==
    /\ req[r].kind = "order" /\ req[r].pc = "received"
    /\ LET errorMessage == JoiValidate(req[r].product_list)
       IN  req' = [req EXCEPT ![r] =
                      IF errorMessage # <<>> THEN Respond(@, 400, errorMessage, 0)
                      ELSE [@ EXCEPT !.pc = "findAll"]]
    /\ UNCHANGED <<products, orders, bills, billWrites, acceptedPaid>>

\* line 212
IsEmptyNever(productList) == FALSE
IsEmpty(productList) == Len(productList) = 0

\* lines 206-250: the lookup completes, the order is priced, Order.create is called
FindProducts(r) ==
    /\ req[r].kind = "order" /\ req[r].pc = "findAll"
    /\ LET productList == FindAllWhereIdIn(products, ParsedIds(req[r].product_list.v))
       IN  req' = [req EXCEPT ![r] =
                      IF IsEmpty(productList) THEN Respond(@, 400, UnknownProducts, 0)
                      ELSE [@ EXCEPT !.pc = "create",
                                     !.productList = productList,
                                     !.orderData = orderData(productList)]]
    /\ UNCHANGED <<products, orders, bills, billWrites, acceptedPaid>>

\* lines 252-254: the row is inserted, with the defaults of the model
CreateOrder(r) ==
    /\ req[r].kind = "order" /\ req[r].pc = "create"
    /\ LET order == [id |-> Len(orders) + 1,
                     status |-> DefaultStatus,
                     shipment_amount |-> req[r].orderData.shipment_amount,
                     total_amount |-> req[r].orderData.total_amount,
                     total_weight |-> req[r].orderData.total_weight]
       IN  /\ orders' = Append(orders, order)
           /\ req' = [req EXCEPT ![r] = Respond(@, 201, <<>>, order.id)]
    /\ UNCHANGED <<products, bills, billWrites, acceptedPaid>>

----------------------------------------------------------------------------
(* PUT /orders/:id/status, lines 333-350                                   *)

OrderIds == 1..(MaxOrders + 1)

\* line 334, up to the await of line 335
PutOrderStatus(r, id, status) ==
    /\ req[r].pc = "idle"
    /\ status = "paid" =>
          acceptedPaid + Len(billWrites)
            + Cardinality({x \in InFlight("status") : req[x].status = "paid"}) < MaxBills
    /\ req' = [req EXCEPT ![r] =
                  [Idle EXCEPT !.kind = "status", !.pc = "findById",
                               !.id = id, !.status = status]]
    /\ UNCHANGED <<products, orders, bills, billWrites, acceptedPaid>>

\* Order.findById(id): the row, or null
FindById(id) == IF id \in 1..Len(orders) THEN <<orders[id]>> ELSE <<>>

BillUnlessPaid(order, status) == status = "paid" /\ order.status # "paid"
\* line 343
BillWanted(order, status) == status = "paid"

\* lines 335-347: the read completes; the checks; Bill.create is called and
\* not awaited; order.update is called
FindOrder(r) ==
    /\ req[r].kind = "status" /\ req[r].pc = "findById"
    /\ LET order == FindById(req[r].id)
           status == req[r].status
       IN  IF order = <<>>
           THEN /\ req' = [req EXCEPT ![r] = Respond(@, 404, <<>>, 0)]
                /\ UNCHANGED billWrites
           ELSE IF status \notin StatusList
           THEN /\ req' = [req EXCEPT ![r] = Respond(@, 400, <<>>, 0)]
                /\ UNCHANGED billWrites
           ELSE /\ req' = [req EXCEPT ![r] = [@ EXCEPT !.pc = "update", !.order = order]]
                /\ billWrites' =
                      IF BillWanted(order[1], status)
                      THEN Append(billWrites,
                                  [total_amount |-> order[1].total_amount, by |-> r])
                      ELSE billWrites
    /\ UNCHANGED <<products, orders, bills, acceptedPaid>>

UpdateFromPending(current, status) == IF current = "pending" THEN status ELSE current
\* order.update({status}), line 347: the value the row's status takes
Update(current, status) == status

\* lines 347-349: the row's status is written, 200 is sent
UpdateOrder(r) ==
    /\ req[r].kind = "status" /\ req[r].pc = "update"
    /\ orders' = [orders EXCEPT ![req[r].id].status = Update(@, req[r].status)]
    /\ req' = [req EXCEPT ![r] = Respond(@, 200, <<>>, 0)]
    /\ acceptedPaid' = IF req[r].status = "paid" THEN acceptedPaid + 1 ELSE acceptedPaid
    /\ UNCHANGED <<products, bills, billWrites>>

\* The store executes a Bill.create issued at line 344
BillCreate(i) ==
    /\ i \in 1..Len(billWrites)
    /\ bills' = Append(bills, [id |-> Len(bills) + 1,
                               total_amount |-> billWrites[i].total_amount])
    /\ billWrites' = [k \in 1..(Len(billWrites) - 1) |->
                         IF k < i THEN billWrites[k] ELSE billWrites[k + 1]]
    /\ UNCHANGED <<products, orders, req, acceptedPaid>>

\* The client has its response; the connection serves the next request.
\* A bill write the request left in flight stays in flight.
Close(r) ==
    /\ req[r].pc = "done"
    /\ req' = [req EXCEPT ![r] = Idle]
    /\ billWrites' = [k \in 1..Len(billWrites) |->
                         IF billWrites[k].by = r THEN [billWrites[k] EXCEPT !.by = 0]
                         ELSE billWrites[k]]
    /\ UNCHANGED <<products, orders, bills, acceptedPaid>>

Next ==
    \/ \E body \in ProductBodies : PostProducts(body)
    \/ \E r \in Slots, pl \in ProductLists : PostOrders(r, pl)
    \/ \E r \in Slots : ValidateOrder(r)
    \/ \E r \in Slots : FindProducts(r)
    \/ \E r \in Slots : CreateOrder(r)
    \/ \E r \in Slots, id \in OrderIds, status \in RequestedStatuses :
          PutOrderStatus(r, id, status)
    \/ \E r \in Slots : FindOrder(r)
    \/ \E r \in Slots : UpdateOrder(r)
    \/ \E i \in 1..MaxBills : BillCreate(i)
    \/ \E r \in Slots : Close(r)

\* The whole service
Spec == Init /\ [][Next]_vars

\* Products and orders only: no status request is made
NextOrders ==
    \/ \E body \in ProductBodies : PostProducts(body)
    \/ \E r \in Slots, pl \in ProductLists : PostOrders(r, pl)
    \/ \E r \in Slots : ValidateOrder(r)
    \/ \E r \in Slots : FindProducts(r)
    \/ \E r \in Slots : CreateOrder(r)
    \/ \E r \in Slots : Close(r)

SpecOrders == Init /\ [][NextOrders]_vars

\* Status requests, on orders that were each created for the first product
NextStatus ==
    \/ \E body \in ProductBodies : PostProducts(body)
    \/ \E r \in Slots : PostOrders(r, Array(<<Num(1)>>))
    \/ \E r \in Slots : ValidateOrder(r)
    \/ \E r \in Slots : FindProducts(r)
    \/ \E r \in Slots : CreateOrder(r)
    \/ \E r \in Slots, id \in OrderIds, status \in RequestedStatuses :
          PutOrderStatus(r, id, status)
    \/ \E r \in Slots : FindOrder(r)
    \/ \E r \in Slots : UpdateOrder(r)
    \/ \E i \in 1..MaxBills : BillCreate(i)
    \/ \E r \in Slots : Close(r)

SpecStatus == Init /\ [][NextStatus]_vars

----------------------------------------------------------------------------
(* Vocabulary of the properties                                            *)

Range(f) == {f[i] : i \in DOMAIN f}

RECURSIVE SumOf(_, _)
\* the sum of field over the records of the set S
SumOf(S, field) ==
    IF S = {} THEN 0
    ELSE LET x == CHOOSE y \in S : TRUE
         IN  x[field] + SumOf(S \ {x}, field)

\* k is n/d rounded to the nearest integer, a half going up
IsRoundHalfUp(k, n, d) == 2 * d * k - d <= 2 * n /\ 2 * n < 2 * d * k + d

\* the steps of request r, by the positions they join
ValidateStep(r) ==
    req[r].kind = "order" /\ req[r].pc = "received" /\ req'[r].pc # "received"
FindProductsStep(r) ==
    req[r].kind = "order" /\ req[r].pc = "findAll" /\ req'[r].pc # "findAll"
CreateStep(r) ==
    req[r].kind = "order" /\ req[r].pc = "create" /\ req'[r].pc # "create"
FindOrderStep(r) ==
    req[r].kind = "status" /\ req[r].pc = "findById" /\ req'[r].pc # "findById"
UpdateStep(r) ==
    req[r].kind = "status" /\ req[r].pc = "update" /\ req'[r].pc # "update"

\* entry e is the identifier k: the number k, or its decimal string
Denotes(e, k) ==
    \/ e.t = "number" /\ e.n = k
    \/ e.t = "string" /\ k \in 0..9 /\ e.s = <<ToString(k)>>
\* entry e is a number or the decimal string of one
IsNumeric(e) == e.t = "number" \/ \E k \in 0..9 : Denotes(e, k)
\* the products of the catalog that entry e of a product_list names
Named(e) == {p \in Range(products) : Denotes(e, p.id)}
\* the products that the list v names
Matched(v) == UNION {Named(v[i]) : i \in 1..Len(v)}

\* a 400 response carrying a list of {message, context}
IsValidationError(q) == q.pc = "done" /\ q.code = 400 /\ Len(q.data) > 0
IsUnknownReference(q) ==
    /\ IsValidationError(q)
    /\ q.data[1].message = "Unknown products"
    /\ q.data[1].key = "product_list"

----------------------------------------------------------------------------
\* C1: the order that a request creates from the products it resolved has
\* total_weight the sum of their weights and shipment_amount 25 times that
\* weight over 10 rounded to the nearest integer, a half going up (weight 5
\* gives 25, weight 4 gives 0).
C1_WeightAndShipment ==
    [][\A r \in Slots : CreateStep(r) =>
          LET o == orders'[Len(orders')]
              w == SumOf(Range(req[r].productList), "weight")
          IN  /\ Len(orders') = Len(orders) + 1
              /\ o.total_weight = w
              /\ \E k \in 0..w : IsRoundHalfUp(k, w, 10) /\ o.shipment_amount = 25 * k
              /\ w = 5 => o.shipment_amount = 25
              /\ w = 4 => o.shipment_amount = 0]_vars

\* an order of weight 5 is stored with shipment 25
C1_Witness ==
    \E i \in DOMAIN orders : orders[i].total_weight = 5 /\ orders[i].shipment_amount = 25

ValidExisting(e) == IsNumeric(e) /\ Named(e) # {}

C3_Lookup(r) ==
    FindProductsStep(r) /\ (\E i \in 1..Len(req[r].product_list.v) :
                               ValidExisting(req[r].product_list.v[i]))
        => req'[r].pc = "create"

C3_Create(r) ==
    CreateStep(r) =>
        /\ Len(orders') = Len(orders) + 1
        /\ \A i \in DOMAIN orders : orders'[i] = orders[i]
        /\ orders'[Len(orders')].status = "pending"
        /\ req'[r].pc = "done" /\ req'[r].code = 201
        /\ req'[r].location = orders'[Len(orders')].id

\* C3 as stated: a request whose product_list has at least one valid
\* identifier of an existing product succeeds, whatever else the list
\* contains, with one write to the Order store of an Order that is pending.
C3_AsStated ==
    [][\A r \in Slots :
          /\ ValidateStep(r) /\ req[r].product_list.t = "array"
               /\ (\E i \in 1..Len(req[r].product_list.v) :
                      ValidExisting(req[r].product_list.v[i]))
               => req'[r].pc = "findAll"
          /\ C3_Lookup(r)
          /\ C3_Create(r)]_vars

\* C3, amended: when every entry of product_list is numeric and at least
\* one names an existing product, the request succeeds with one write to the
\* Order store of an Order that is pending, the entries that name no product
\* being dropped; a list with an entry that is not numeric is rejected with
\* a validation error and no Order is stored.
C3_AllNumeric ==
    [][\A r \in Slots :
          /\ ValidateStep(r) /\ req[r].product_list.t = "array"
               /\ (\A i \in 1..Len(req[r].product_list.v) :
                      IsNumeric(req[r].product_list.v[i]))
               => req'[r].pc = "findAll"
          /\ ValidateStep(r) /\ req[r].product_list.t = "array"
               /\ (\E i \in 1..Len(req[r].product_list.v) :
                      ~IsNumeric(req[r].product_list.v[i]))
               => IsValidationError(req'[r]) /\ orders' = orders
          /\ C3_Lookup(r)
          /\ C3_Create(r)]_vars

\* an order is about to be created from a list one entry of which names no product
C3_Witness ==
    \E r \in Slots :
        /\ req[r].pc = "create"
        /\ \E i \in 1..Len(req[r].product_list.v) : Named(req[r].product_list.v[i]) = {}

\* C4: a request that cannot be fulfilled is answered with a validation
\* error and stores no Order: a missing or all-invalid product_list at
\* validation, an empty one or one that names no product of the catalog at
\* the lookup, there with the message that names product_list.
C4_Rejected ==
    [][\A r \in Slots :
          LET pl == req[r].product_list
          IN  /\ ValidateStep(r)
                   /\ (\/ pl.t = "undefined"
                       \/ Len(pl.v) > 0 /\ \A i \in 1..Len(pl.v) : ~IsNumeric(pl.v[i]))
                   => IsValidationError(req'[r]) /\ orders' = orders
              /\ FindProductsStep(r) /\ Matched(pl.v) = {}
                   => IsUnknownReference(req'[r]) /\ orders' = orders
              /\ req[r].kind = "order" /\ req[r].pc # "done" /\ req'[r].pc = "done"
                   /\ req'[r].code # 201
                   => IsValidationError(req'[r]) /\ orders' = orders]_vars

\* a request has been answered that its products are unknown
C4_Witness ==
    \E r \in Slots : req[r].kind = "order" /\ IsUnknownReference(req[r])

\* C10: the order is priced over the set of the products that the list
\* names: each product once however often it is named, nothing for an entry
\* that names none.
C10_PricedOverSet ==
    [][\A r \in Slots : FindProductsStep(r) /\ req'[r].pc = "create" =>
          LET M == Matched(req[r].product_list.v)
              shipment == orderShipmentPrice(SumOf(M, "weight"))
          IN  /\ Range(req'[r].productList) = M
              /\ Len(req'[r].productList) = Cardinality(M)
              /\ req'[r].orderData.total_weight = SumOf(M, "weight")
              /\ req'[r].orderData.shipment_amount = shipment
              /\ req'[r].orderData.total_amount = totalAmount(SumOf(M, "price") + shipment)]_vars

\* an order is about to be created from a list that names one product twice
C10_Witness ==
    \E r \in Slots :
        /\ req[r].pc = "create"
        /\ \E i, j \in 1..Len(req[r].product_list.v) :
              i # j /\ Named(req[r].product_list.v[i]) # {}
                    /\ Named(req[r].product_list.v[i]) = Named(req[r].product_list.v[j])
        /\ Len(req[r].productList) = 1

----------------------------------------------------------------------------
OrderExists(id) == \E i \in DOMAIN orders : orders[i].id = id

\* C5: a status request for an order that does not exist is answered 404,
\* whatever its status; one for an existing order with a status that is not
\* pending, paid or cancelled is answered 400; neither issues a Bill nor
\* changes an Order.
C5_Rejected ==
    [][\A r \in Slots : FindOrderStep(r) =>
          /\ ~OrderExists(req[r].id) =>
                /\ req'[r].pc = "done" /\ req'[r].code = 404
                /\ UNCHANGED <<orders, bills, billWrites>>
          /\ OrderExists(req[r].id) /\ req[r].status \notin {"pending", "paid", "cancelled"} =>
                /\ req'[r].pc = "done" /\ req'[r].code = 400
                /\ UNCHANGED <<orders, bills, billWrites>>]_vars

\* a status request has been answered 404
C5_Witness ==
    \E r \in Slots : req[r].kind = "status" /\ req[r].pc = "done" /\ req[r].code = 404

\* no request is being handled
Quiescent == \A r \in Slots : req[r].pc \in {"idle", "done"}

\* C6: every accepted status request for paid creates exactly one Bill and
\* every other one none, so that when the requests made so far have all been
\* answered there are as many Bills as accepted requests for paid.
C6_BillsMatchAccepted == Quiescent => Len(bills) = acceptedPaid

NewOrdersArePending ==
    \A i \in DOMAIN orders' : i \notin DOMAIN orders => orders'[i].status = "pending"

\* C7 as stated: an order starts pending, and once it is paid or cancelled
\* its status does not change any more.
C7_Terminal ==
    [][/\ NewOrdersArePending
       /\ \A i \in DOMAIN orders :
             orders[i].status \in {"paid", "cancelled"} =>
                orders'[i].status = orders[i].status]_vars

\* C7, amended: an order starts pending; its status changes only when a
\* status request is accepted, and then to the requested value whatever the
\* current one is, paid and cancelled included.
C7_Overwrite ==
    [][/\ NewOrdersArePending
       /\ \A r \in Slots : UpdateStep(r) =>
             /\ req'[r].code = 200
             /\ orders'[req[r].id].status = req[r].status
       /\ \A i \in DOMAIN orders :
             orders'[i].status # orders[i].status =>
                \E r \in Slots : UpdateStep(r) /\ req[r].id = i]_vars

\* the one order has been paid and is pending again
C7_Witness ==
    Len(orders) = 1 /\ acceptedPaid >= 1 /\ orders[1].status = "pending"

\* C8: once a request for paid has its Order update under way, or has
\* answered, its Bill write is no longer in flight.
C8_BillBeforeUpdate ==
    \A r \in Slots :
        req[r].kind = "status" /\ req[r].pc \in {"update", "done"} =>
            \A k \in 1..Len(billWrites) : billWrites[k].by # r

\* C9: status requests on one order interleave unguarded: a request for
\* paid issues a Bill whatever the order's status and whatever else is in
\* flight, and an update writes its own status over whatever is stored, so
\* the last update decides; no Bill is merged or dropped, so two requests
\* for paid make two Bills.
C9_Race ==
    /\ [][\A r \in Slots :
             /\ FindOrderStep(r) /\ req'[r].pc = "update" /\ req[r].status = "paid" =>
                   billWrites' = Append(billWrites,
                                        [total_amount |-> orders[req[r].id].total_amount,
                                         by |-> r])
             /\ UpdateStep(r) => orders'[req[r].id].status = req[r].status]_vars
    /\ [](Len(bills) + Len(billWrites) =
             acceptedPaid
               + Cardinality({r \in Slots : req[r].pc = "update" /\ req[r].status = "paid"}))

\* two requests for paid have both read the one order as pending, both
\* their Bills are stored, and the order is still pending
C9_Witness ==
    /\ Len(orders) = 1 /\ orders[1].status = "pending"
    /\ Len(bills) = 2
    /\ \A r \in Slots :
          /\ req[r].pc = "update" /\ req[r].id = 1 /\ req[r].status = "paid"
          /\ req[r].order[1].status = "pending"

====
